---------------------------- MODULE Spec2Model ----------------------------
(***************************************************************************)
(* A model of the change-detection and scheduled-sync engine of            *)
(* VPN-to-GitHub: GitManager (git_manager.py), UploadScheduler             *)
(* (scheduler.py), FileWatcher (file_watcher.py) and the parts of          *)
(* MainWindow (main_window.py) that wire them together.                    *)
(*                                                                         *)
(* Specifications:                                                         *)
(*   SpecSync   GitManager.sync_and_upload called by one caller, with the  *)
(*              file system, the working tree and the remote around it.    *)
(*   SpecSched  UploadScheduler driven by one caller, with a callback that *)
(*              takes any time and may raise.                              *)
(*   SpecWatch  FileWatcher driven by one caller, with the events of the   *)
(*              watched folder.                                            *)
(*   SpecApp    MainWindow: the GUI thread, the scheduler's loop threads   *)
(*              and the UploadWorker threads around one GitManager.        *)
(***************************************************************************)
EXTENDS Integers, Sequences, FiniteSets, TLC

(***************************************************************************)
(* Bounds of the model.                                                    *)
(***************************************************************************)
NContents == 2       \* distinct file contents
MaxEvents == 1       \* events of the world around the program
MaxTime == 2         \* the clock stops here
MaxThreads == 2      \* loop threads UploadScheduler.start may create
MaxInterval == 1     \* the longest upload interval, in ticks
MaxObservers == 2    \* Observer objects FileWatcher.start may create
MaxWorkers == 2      \* UploadWorker objects _perform_upload may create
MaxTimers == 1       \* first-upload timers pending at once
MaxRequests == 2     \* requests the user makes of MainWindow
MaxQueue == 2        \* events an Observer holds that it has not dispatched
MaxStamp == 11       \* the largest st_mtime and st_size of a file
MaxCallers == 2      \* threads that call a FileHashCache at once
MaxRaises == 2       \* times in a row the callback of a loop raises

(***************************************************************************)
(* Files, contents and hashes.                                             *)
(***************************************************************************)
\* Two of the tracked file names of AppConfig.files_to_upload.
Files == {"all.yaml", "base64.txt"}
Contents == 1..NContents
\* A path with no file behind it (Path.exists() is False).
Absent == 0
\* The empty string, the hash of "no file" and the .get default.
EmptyHash == 0
\* A key that is not in a dict.
NoKey == -1
\* hashlib.md5(...).hexdigest(): 32 hex digits, never the empty string, and
\* different for the different contents of the model.
md5(c) == 10 + c
Hashes == {md5(c) : c \in Contents}
\* dicts filename -> hash, total over Files, NoKey where the key is missing.
HashMaps == [Files -> {NoKey, EmptyHash} \cup Hashes]
Trees == [Files -> {Absent} \cup Contents]
\* dict.get(name, "")
Get(d, f) == IF d[f] = NoKey THEN EmptyHash ELSE d[f]
Keys(d) == {f \in Files : d[f] # NoKey}

VARIABLES
    source,       \* the target folder: file name -> content, or Absent
    tree,         \* the working tree at GitManager.local_path
    remote,       \* the tracked files at the head of the remote branch
    base,         \* the remote head the working tree was last merged with
    cloned,       \* local_path holds a git repository
    repo,         \* GitManager.repo is set
    file_hashes,  \* the dict passed as stored_hashes (config.file_hashes)
    call,         \* per worker: the sync_and_upload invocation it runs
    prev,         \* SpecSync: the result of the caller's previous call
    events,       \* events of the world so far
    now,             \* datetime.now(), in ticks
    interval_hours,  \* UploadScheduler._interval_hours, in ticks
    sched_running,   \* UploadScheduler._running
    stop_event,      \* UploadScheduler._stop_event is set
    next_run_time,   \* UploadScheduler._next_run_time, or NoTime
    last_run_time,   \* UploadScheduler._last_run_time, or NoTime
    thread,          \* UploadScheduler._thread: a loop thread, or NoThread
    loop,            \* per loop thread: where it is in _run_loop
    fires,           \* history: the callback invocations of the scheduler
    ui,              \* where the calling (GUI) thread is
    watch_running,   \* FileWatcher._running
    observer,        \* FileWatcher.observer: an Observer, or NoObserver
    observers,       \* per Observer object: its state, handler and queue
    watch_dir,       \* the watched folder exists
    watch_ret,       \* history: how the last start() or stop() ended;
                     \* "restarted": start() returned True on a watcher
                     \* that was running; "no_path": start() returned
                     \* False at line 44; "no_path_stopped": the same on
                     \* a watcher that was running
    last_event,      \* history: the last event of the folder, and the
                     \* change callbacks it has caused; burst: the events
                     \* since the queues were last empty; seen: the
                     \* events handlers were given since then; called:
                     \* the change callbacks since then; arg: the
                     \* argument of the last one
    hfile,           \* the file FileHashCache.get_hash is asked about
    hash_cache,      \* FileHashCache._hashes[str(filepath)]
    gets,            \* history: the last two get_hash calls
    hcall,           \* per calling thread: where it is in get_hash or
                     \* update_hash, and the locals of the call
    upload_worker,   \* MainWindow.upload_worker: a worker, or NoWorker
    signals,         \* finished_signal emissions queued for the GUI thread
    timer,           \* pending QTimer.singleShot(_perform_first_upload)
    stats,           \* config.total_upload_count, success_upload_count
                     \* and failed_upload_count
    task,            \* the task is started (start button disabled)
    requests         \* requests the user has made so far

syncVars == <<source, tree, remote, base, cloned, repo, file_hashes, call,
              prev, events>>
schedVars == <<now, interval_hours, sched_running, stop_event, next_run_time,
               last_run_time, thread, loop, fires>>
cacheVars == <<hfile, hash_cache, gets, hcall>>
watchVars == <<watch_running, observer, observers, watch_dir, watch_ret,
               last_event, cacheVars>>
appVars == <<upload_worker, signals, timer, stats, task, requests>>
vars == <<syncVars, schedVars, ui, watchVars, appVars>>
notSync == <<schedVars, ui, watchVars, appVars>>
notSched == <<syncVars, watchVars, appVars>>
notWatch == <<syncVars, schedVars, ui, appVars>>

NoWorker == 0
Workers == 1..MaxWorkers
\* Objects are numbered; a new one takes the lowest number not in use.
Lowest(S) == CHOOSE x \in S : \A y \in S : x <= y

(***************************************************************************)
(* GitManager (git_manager.py).                                            *)
(***************************************************************************)
\* GitManager.get_file_hash of a file that can be read.
get_file_hash(f) == IF source[f] = Absent THEN EmptyHash ELSE md5(source[f])

\* GitManager.has_changes: the files of source_files that exist.
Existing(source_files) == {f \in source_files : source[f] # Absent}

\* A has_changes that takes every existing file as changed.
HasChangesAll(source_files, stored_hashes) == Existing(source_files)

\* GitManager.has_changes: changed_files.
HasChangesChanged(source_files, stored_hashes) ==
    {f \in Existing(source_files) : get_file_hash(f) # Get(stored_hashes, f)}

\* A has_changes without the test of line 109: a file that is not there
\* gets the hash get_file_hash gives it.
HasChangesHashesAll(source_files) ==
    [f \in Files |-> IF f \in source_files THEN get_file_hash(f) ELSE NoKey]

\* GitManager.has_changes: current_hashes.
HasChangesHashes(source_files) ==
    [f \in Files |-> IF f \in Existing(source_files) THEN get_file_hash(f)
                                                     ELSE NoKey]

\* An invocation of sync_and_upload that has not run yet.  The fields from
\* stored0 on are history: what the invocation saw and did; failed: the last
\* step that failed; stopped: the task was stopped while it ran.
NewCall(source_files) ==
    [pc |-> "start", source_files |-> source_files,
     changed_files |-> {}, current_hashes |-> [f \in Files |-> NoKey],
     success |-> FALSE, ret |-> "none",
     stored0 |-> file_hashes, seen |-> [f \in Files |-> Absent],
     copied |-> {}, gitops |-> <<>>, failed |-> "none", dirty |-> FALSE,
     stopped |-> FALSE]

IdleCall == [NewCall({}) EXCEPT !.pc = "idle",
                                !.stored0 = [f \in Files |-> NoKey]]

\* A failure path that hands back the hashes computed so far.
ReturnFailureCurrent(c, step) ==
    [c EXCEPT !.pc = "returned", !.success = FALSE, !.ret = "current",
              !.failed = step]

\* return False, <message>, stored_hashes: the dict that was passed in.
ReturnFailure(c, step) ==
    [c EXCEPT !.pc = "returned", !.success = FALSE, !.ret = "stored",
              !.failed = step]

\* A sync_and_upload without its try: the exception of a step leaves the
\* function.
Propagates(c, step) == [c EXCEPT !.pc = "raised", !.failed = step]

\* Lines 212-213: except Exception as e: return False, ..., stored_hashes,
\* for an exception raised by a step between lines 170 and 210.
ExceptSync(c, step) == ReturnFailure(c, step)

\* return True, message, current_hashes
ReturnSuccess(c) ==
    [c EXCEPT !.pc = "returned", !.success = TRUE, !.ret = "current"]

\* The dict an invocation returned: stored_hashes itself, or current_hashes.
ReturnedMap(c) == IF c.ret = "stored" THEN file_hashes ELSE c.current_hashes

\* Lines 170-182: load the repository if it is not loaded, then has_changes.
\* Repo(local_path) fails when local_path holds no repository; open() or
\* read() of an existing file may raise, which is caught at line 212.
SyncHasChanges(w) ==
    /\ call[w].pc = "start"
    /\ \/ /\ ~repo /\ ~cloned
          /\ call' = [call EXCEPT ![w] = ReturnFailure(@, "load")]
          /\ UNCHANGED repo
       \/ /\ repo \/ cloned
          /\ repo' = TRUE
          /\ \/ /\ Existing(call[w].source_files) # {}
                /\ call' = [call EXCEPT ![w] = ExceptSync(@, "hash")]
             \/ call' = [call EXCEPT ![w] =
                    [@ EXCEPT !.pc = "pull",
                              !.changed_files =
                                  HasChangesChanged(call[w].source_files,
                                                    file_hashes),
                              !.current_hashes =
                                  HasChangesHashes(call[w].source_files),
                              !.seen = source]]
    /\ UNCHANGED <<source, tree, remote, base, cloned, file_hashes, prev,
                   events>>
    /\ UNCHANGED notSync

\* git pull merges the remote head into the working tree; a file changed on
\* both sides to different contents is a conflict.
Conflict == \E f \in Files :
                remote[f] # base[f] /\ tree[f] # base[f] /\ tree[f] # remote[f]
Merged == [f \in Files |-> IF remote[f] # base[f] THEN remote[f] ELSE tree[f]]

\* A pull whose failure ends the attempt.
PullAborts(c) == ReturnFailure(c, "pull")

\* Lines 190-193: except GitCommandError: the failure of the pull is
\* reported to the progress callback and the attempt goes on.
PullFailed(c) == [c EXCEPT !.pc = "copy", !.failed = "pull"]

\* Lines 184-193: refresh the remote's url, then pull.  config_writer may
\* raise (caught at line 212); a GitCommandError of pull is swallowed.
SyncPull(w) ==
    /\ call[w].pc = "pull"
    /\ \/ /\ call' = [call EXCEPT ![w] = ExceptSync(@, "auth")]
          /\ UNCHANGED <<tree, base>>
       \/ /\ call' = [call EXCEPT ![w] = PullFailed(@)]
          /\ UNCHANGED <<tree, base>>
       \/ /\ cloned /\ ~Conflict
          /\ call' = [call EXCEPT ![w].pc = "copy"]
          /\ tree' = Merged
          /\ base' = remote
    /\ UNCHANGED <<source, remote, cloned, repo, file_hashes, prev,
                   events>>
    /\ UNCHANGED notSync

\* A sync_and_upload that goes on to commit_and_push whatever copy_files
\* reported.
CopyFilesAnyway(w, failed_copies) ==
    LET c == call[w]
        done == c.changed_files \ failed_copies
    IN  /\ tree' = [f \in Files |-> IF f \in done THEN source[f] ELSE tree[f]]
        /\ call' = [call EXCEPT ![w] =
               [@ EXCEPT !.pc = "commit", !.copied = done,
                         !.failed = IF failed_copies # {} THEN "copy" ELSE @]]

\* GitManager.copy_files: shutil.copy2 of each file, failures collected.  A
\* file that is gone cannot be copied; any other copy may fail too.
CopyFiles(w, failed_copies) ==
    LET c == call[w]
        done == c.changed_files \ failed_copies
    IN  /\ tree' = [f \in Files |-> IF f \in done THEN source[f] ELSE tree[f]]
        /\ call' = [call EXCEPT ![w] =
               IF failed_copies # {}
               THEN [ReturnFailure(@, "copy") EXCEPT !.copied = done]
               ELSE [@ EXCEPT !.pc = "commit", !.copied = done]]

\* Lines 195-201.
SyncCopy(w) ==
    /\ call[w].pc = "copy"
    /\ \E failed_copies \in SUBSET call[w].changed_files :
          /\ {f \in call[w].changed_files : source[f] = Absent}
                 \subseteq failed_copies
          /\ CopyFiles(w, failed_copies)
    /\ UNCHANGED <<source, remote, base, cloned, repo, file_hashes, prev,
                   events>>
    /\ UNCHANGED notSync

\* A commit without --allow-empty: none when nothing was copied.
CommitOnlyIfChanged(changed) == changed # {}

\* git commit --allow-empty: a commit is made whether or not anything is
\* staged.
CommitMade(changed) == TRUE

\* Lines 203-210 with commit_and_push (122-166): add -A, commit, push.  A
\* push is rejected when the remote head is not the one last merged.
SyncCommitAndPush(w) ==
    /\ call[w].pc = "commit"
    /\ \/ /\ call' = [call EXCEPT ![w] = ReturnFailure(@, "commit")]
          /\ UNCHANGED <<remote, base>>
       \/ /\ cloned
          /\ call' = [call EXCEPT ![w] =
                 [ReturnFailure(@, "push") EXCEPT !.gitops =
                     IF CommitMade(call[w].copied) THEN Append(@, "commit")
                                                   ELSE @]]
          /\ UNCHANGED <<remote, base>>
       \/ /\ cloned /\ remote = base
          /\ call' = [call EXCEPT ![w] =
                 [ReturnSuccess(@) EXCEPT !.gitops =
                     IF CommitMade(call[w].copied)
                     THEN @ \o <<"commit", "push">>
                     ELSE Append(@, "push")]]
          /\ remote' = tree
          /\ base' = tree
    /\ UNCHANGED <<source, tree, cloned, repo, file_hashes, prev,
                   events>>
    /\ UNCHANGED notSync

\* GitManager.init_repository: remove local_path and clone the branch again.
InitRepository ==
    /\ \/ /\ cloned' = TRUE /\ repo' = TRUE
          /\ tree' = remote /\ base' = remote
       \/ /\ cloned' = FALSE
          /\ tree' = [f \in Files |-> Absent]
          /\ UNCHANGED <<repo, base>>
    /\ UNCHANGED <<source, remote, file_hashes, call, prev, events>>
    /\ UNCHANGED notSync

(***************************************************************************)
(* UploadScheduler (scheduler.py).  Time is counted in ticks; an interval  *)
(* of h hours is h ticks, and the sleeps of the loop last any time.        *)
(***************************************************************************)
NoTime == -1
NoThread == 0
\* self._interval_hours: int = 6
DefaultInterval == 6
Threads == 1..MaxThreads
\* interval_spin.setRange(1, 168)
Intervals == 1..MaxInterval

\* A loop thread that was not created yet.  History: last_set is the
\* last_run_time the thread wrote at line 54, kept until it has written
\* next_run_time; replaced says that a start() that found the scheduler
\* running put another thread in its place; raises counts the invocations
\* of the callback by the thread that raised since the last one that
\* returned, and due is the next_run_time at the last of them.
NewLoop == [pc |-> "unborn", cb |-> "none", last_set |-> NoTime,
            replaced |-> FALSE, raises |-> 0, due |-> NoTime]

\* History of the callback: no invocation yet.  active: invocations in
\* progress; start: when the last one began; end: when the last one that
\* returned did so; stable: the interval has not changed since the last
\* invocation began; moved: update_interval has recomputed the deadline
\* since the last start().
NoFires == [active |-> 0, start |-> NoTime, end |-> NoTime, stable |-> TRUE,
            moved |-> FALSE]

\* The GUI thread between two handlers.  h: the interval start() was
\* given; first: _perform_upload was called by _perform_first_upload.
IdleUi == [pc |-> "idle", h |-> 0, first |-> FALSE]

Alive(t) == loop[t].pc \notin {"unborn", "dead"}
Unborn == {t \in Threads : loop[t].pc = "unborn"}

InitSched ==
    /\ now = 0
    /\ interval_hours = DefaultInterval
    /\ sched_running = FALSE
    /\ stop_event = FALSE
    /\ next_run_time = NoTime
    /\ last_run_time = NoTime
    /\ thread = NoThread
    /\ loop = [t \in Threads |-> NewLoop]
    /\ fires = NoFires

\* The interval changes from interval_hours to h.
IntervalSet(f, h) == [f EXCEPT !.stable = @ /\ h = interval_hours]

\* stop(), lines 40-41: signal the loop.
StopSignal ==
    /\ stop_event' = TRUE
    /\ sched_running' = FALSE

\* start(), lines 27-37, on a scheduler whose stop() has returned or that was
\* not running.
StartBody(h, t) ==
    /\ interval_hours' = h
    /\ stop_event' = FALSE
    /\ sched_running' = TRUE
    /\ next_run_time' = now + h
    /\ thread' = t
    /\ fires' = [IntervalSet(fires, h) EXCEPT !.moved = FALSE]

\* start(interval_hours, callback), up to the join of its stop() when the
\* scheduler is running.
StartEnter(h) ==
    /\ Unborn # {}
    /\ IF sched_running
       THEN /\ StopSignal
            /\ ui' = [IdleUi EXCEPT !.pc = "start_join", !.h = h]
            /\ UNCHANGED <<interval_hours, next_run_time, thread, loop, fires>>
       ELSE /\ LET t == Lowest(Unborn) IN
                 /\ StartBody(h, t)
                 /\ loop' = [loop EXCEPT ![t].pc = "while"]
            /\ ui' = IdleUi
    /\ UNCHANGED <<now, last_run_time>>
    /\ UNCHANGED notSched

\* stop(), lines 42-43: join(timeout=5) is skipped when there is no live
\* thread, returns when the thread has exited, and gives up after five
\* seconds on a thread that is inside time.sleep(30), time.sleep(60) or the
\* callback.
JoinOver ==
    IF thread = NoThread THEN TRUE
    ELSE loop[thread].pc \in {"dead", "sleep30", "sleep60", "callback"}

\* stop(), up to its join.
StopEnter ==
    /\ StopSignal
    /\ ui' = [IdleUi EXCEPT !.pc = "stop_join"]
    /\ UNCHANGED <<now, interval_hours, next_run_time, last_run_time, thread,
                   loop, fires>>
    /\ UNCHANGED notSched

\* stop(), lines 42-45, from the moment the join is over; when stop() was
\* called by start(), lines 27-37 follow.
AfterJoin ==
    /\ ui.pc \in {"start_join", "stop_join"}
    /\ JoinOver
    /\ IF ui.pc = "stop_join"
       THEN /\ thread' = NoThread
            /\ next_run_time' = NoTime
            /\ UNCHANGED <<interval_hours, sched_running, stop_event, loop,
                           fires>>
       ELSE /\ Unborn # {}
            /\ LET t == Lowest(Unborn) IN
                  /\ StartBody(ui.h, t)
                  /\ loop' = [u \in Threads |->
                                IF u = t THEN [loop[u] EXCEPT !.pc = "while"]
                                ELSE IF u = thread /\ Alive(u)
                                     THEN [loop[u] EXCEPT !.replaced = TRUE]
                                     ELSE loop[u]]
    /\ ui' = IdleUi
    /\ UNCHANGED <<now, last_run_time>>
    /\ UNCHANGED notSched

\* An update_interval that sets the deadline of a scheduler that is not
\* running as well.
Eager(h) == now + h

\* Lines 81-82: the deadline is recomputed when the scheduler is running
\* and has one.
Recomputed(h) == IF sched_running /\ next_run_time # NoTime
                 THEN now + h ELSE next_run_time

\* update_interval(interval_hours)
UpdateInterval(h) ==
    /\ interval_hours' = h
    /\ next_run_time' = Recomputed(h)
    /\ fires' = [IntervalSet(fires, h) EXCEPT
                    !.moved = @ \/ (sched_running /\ next_run_time # NoTime)]
    /\ UNCHANGED <<now, sched_running, stop_event, last_run_time, thread, loop,
                   ui>>
    /\ UNCHANGED notSched

\* _run_loop, line 48: while not self._stop_event.is_set(), when the thread
\* starts and when time.sleep(30) or time.sleep(60) is over.
LoopWhile(t) ==
    /\ loop[t].pc \in {"while", "sleep30", "sleep60"}
    /\ loop' = [loop EXCEPT ![t].pc = IF stop_event THEN "dead" ELSE "poll"]
    /\ UNCHANGED <<now, interval_hours, sched_running, stop_event,
                   next_run_time, last_run_time, thread, fires, ui>>
    /\ UNCHANGED notSched

\* Line 50: self._next_run_time and datetime.now() >= self._next_run_time
Due == next_run_time # NoTime /\ now >= next_run_time

\* Line 50: the deadline is tested; lines 52-53: the callback is invoked.
LoopPoll(t) ==
    /\ loop[t].pc = "poll"
    /\ IF Due
       THEN /\ loop' = [loop EXCEPT ![t].pc = "callback", ![t].cb = "run"]
            /\ fires' = [fires EXCEPT !.active = @ + 1, !.start = now,
                                      !.stable = TRUE]
       ELSE /\ loop' = [loop EXCEPT ![t].pc = "sleep30"]
            /\ UNCHANGED fires
    /\ UNCHANGED <<now, interval_hours, sched_running, stop_event,
                   next_run_time, last_run_time, thread, ui>>
    /\ UNCHANGED notSched

\* The callback returns to line 54.
CallbackReturns(t) ==
    /\ loop' = [loop EXCEPT ![t].pc = "set_last", ![t].cb = "none",
                            ![t].raises = 0, ![t].due = NoTime]
    /\ fires' = [fires EXCEPT !.active = @ - 1, !.end = now]

\* A loop without the try of line 49: the exception ends the thread.
CallbackKills(t) ==
    /\ loop[t].raises < MaxRaises
    /\ loop' = [loop EXCEPT ![t].pc = "dead", ![t].cb = "none",
                            ![t].raises = @ + 1, ![t].due = next_run_time]
    /\ fires' = [fires EXCEPT !.active = @ - 1]

\* A loop that takes a callback that raised for one that returned.
CallbackSkips(t) ==
    /\ loop[t].raises < MaxRaises
    /\ loop' = [loop EXCEPT ![t].pc = "set_last", ![t].cb = "none",
                            ![t].raises = @ + 1, ![t].due = next_run_time]
    /\ fires' = [fires EXCEPT !.active = @ - 1]

\* The callback raises: except Exception, line 60, and time.sleep(60).
CallbackRaises(t) ==
    /\ loop[t].raises < MaxRaises
    /\ loop' = [loop EXCEPT ![t].pc = "sleep60", ![t].cb = "none",
                            ![t].raises = @ + 1, ![t].due = next_run_time]
    /\ fires' = [fires EXCEPT !.active = @ - 1]

\* Line 54: self._last_run_time = datetime.now()
LoopSetLast(t) ==
    /\ loop[t].pc = "set_last"
    /\ last_run_time' = now
    /\ loop' = [loop EXCEPT ![t].pc = "set_next", ![t].last_set = now]
    /\ UNCHANGED <<now, interval_hours, sched_running, stop_event,
                   next_run_time, thread, fires, ui>>
    /\ UNCHANGED notSched

\* A loop that adds the interval to the deadline it has just reached.
NextOnGrid == next_run_time + interval_hours

\* Line 57: datetime.now() + timedelta(hours=self._interval_hours)
NextAfterRun == now + interval_hours

LoopSetNext(t) ==
    /\ loop[t].pc = "set_next"
    /\ next_run_time' = NextAfterRun
    /\ loop' = [loop EXCEPT ![t].pc = "sleep30", ![t].last_set = NoTime]
    /\ UNCHANGED <<now, interval_hours, sched_running, stop_event,
                   last_run_time, thread, fires, ui>>
    /\ UNCHANGED notSched

\* Time passes.
Tick ==
    /\ now < MaxTime
    /\ now' = now + 1
    /\ UNCHANGED <<interval_hours, sched_running, stop_event, next_run_time,
                   last_run_time, thread, loop, fires, ui>>
    /\ UNCHANGED notSched

(***************************************************************************)
(* FileWatcher (file_watcher.py) with the Observer objects of watchdog.    *)
(***************************************************************************)
NoObserver == 0
Observers == 1..MaxObservers
\* Names of files of the watched folder: the tracked ones and another.
Names == Files \cup {"notes.txt"}
\* Lists a caller passes as target_files.
TargetLists == {Files, {"all.yaml"}}
\* Events of the folder as watchdog reports them.
FsEvents == [name : Names, kind : {"modified", "created", "deleted"},
             is_directory : BOOLEAN]
NoEvent == [name |-> "", kind |-> "none", is_directory |-> FALSE,
            notified |-> 0, burst |-> 0, seen |-> 0, called |-> 0,
            arg |-> ""]

\* An Observer that does not exist: not created yet, or stopped, joined and
\* no longer referenced.  state: "created" by Observer(), "started" by a
\* start() that did not raise; target_files: the set its FileChangeHandler
\* was given; queue: the events it has not dispatched yet.
NewObserver == [state |-> "unborn", target_files |-> {}, queue |-> <<>>]
UnbornObservers == {o \in Observers : observers[o].state = "unborn"}
Started == {o \in Observers : observers[o].state = "started"}

\* Values of st_mtime and st_size: one that prints as one digit and one
\* that prints as two.
Stamps == {1, MaxStamp}
\* A path at which there is no file.
NoFile == [mtime |-> 1, size |-> 1, data |-> Absent]
HashedFiles == [mtime : Stamps, size : Stamps, data : Contents]
\* _hashes.get(str(filepath)) of a path that has no record: None.
NoRecord == [key |-> <<>>, hash |-> EmptyHash]
NoGets == [calls |-> <<>>, data |-> Absent, between |-> FALSE,
           touched |-> FALSE]

Callers == 1..MaxCallers
\* A thread that is in no call of the cache.  cached, mtime, size and hash
\* are the locals cached, current_mtime, current_size and file_hash.
NoCall == [pc |-> "idle", cached |-> NoRecord, mtime |-> 1, size |-> 1,
           hash |-> EmptyHash]

InitCache ==
    /\ hfile = NoFile
    /\ hash_cache = NoRecord
    /\ gets = NoGets
    /\ hcall = [t \in Callers |-> NoCall]

InitWatch ==
    /\ watch_running = FALSE
    /\ observer = NoObserver
    /\ observers = [o \in Observers |-> NewObserver]
    /\ watch_dir = TRUE
    /\ watch_ret = "none"
    /\ last_event = NoEvent
    /\ InitCache

\* A stop() that leaves the observer running.
ObserverLeft(obs, o) == obs

\* Lines 63-64: observer.stop(); observer.join().  The thread of the
\* observer exits without dispatching what is left in its queue, and line
\* 65 drops the last reference to the object.
ObserverStopped(obs, o) == [obs EXCEPT ![o] = NewObserver]

\* FileWatcher.stop() of a watcher whose observer was started.
StopBody ==
    /\ observers' = IF observer # NoObserver
                    THEN ObserverStopped(observers, observer) ELSE observers
    /\ observer' = NoObserver
    /\ watch_running' = FALSE

\* FileWatcher.stop().  join() of an Observer whose start() raised, a thread
\* that was never started, raises RuntimeError after line 63.
WatchStop ==
    /\ IF observer # NoObserver /\ observers[observer].state = "created"
       THEN /\ watch_ret' = "raised"
            /\ UNCHANGED <<watch_running, observer, observers>>
       ELSE /\ StopBody
            /\ watch_ret' = "returned"
    /\ UNCHANGED <<watch_dir, last_event, cacheVars>>

\* A start() that takes the folder to be there.
PathAssumed == TRUE

\* Line 43: watch_path.exists()
PathExists == watch_dir

\* FileWatcher.start(watch_path, target_files, change_callback); ok: neither
\* schedule() nor observer.start() raises.
WatchStart(target_files, ok) ==
    LET stopped == IF watch_running /\ observer # NoObserver
                   THEN ObserverStopped(observers, observer) ELSE observers
        kept == IF watch_running THEN NoObserver ELSE observer
        \* An Observer whose start() raised is dropped at line 53.
        live == IF kept # NoObserver THEN [stopped EXCEPT ![kept] = NewObserver]
                                     ELSE stopped
    IN  /\ UnbornObservers # {}
        /\ IF ~PathExists
           THEN /\ observers' = stopped
                /\ observer' = kept
                /\ watch_running' = FALSE
                /\ watch_ret' = IF watch_running THEN "no_path_stopped"
                                 ELSE "no_path"
           ELSE LET o == Lowest(UnbornObservers) IN
                  /\ observers' = [live EXCEPT ![o] =
                         [state |-> IF ok THEN "started" ELSE "created",
                          target_files |-> target_files, queue |-> <<>>]]
                  /\ observer' = o
                  /\ watch_running' = ok
                  /\ watch_ret' = IF ~ok THEN "false"
                                   ELSE IF watch_running THEN "restarted"
                                   ELSE "true"
        /\ UNCHANGED <<watch_dir, last_event, cacheVars>>

\* No Observer holds an event it has not dispatched.
Drained == \A o \in Observers : observers[o].queue = <<>>

\* A file or directory of the folder is modified, created or deleted: every
\* started observer queues the event behind the ones it holds.
FsEvent(e) ==
    /\ watch_dir
    /\ Drained \/ last_event.burst < MaxQueue
    /\ observers' = [o \in Observers |->
                       IF o \in Started
                       THEN [observers[o] EXCEPT !.queue = Append(@, e)]
                       ELSE observers[o]]
    /\ last_event' = [name |-> e.name, kind |-> e.kind,
                      is_directory |-> e.is_directory, notified |-> 0,
                      burst |-> IF Drained THEN 1 ELSE last_event.burst + 1,
                      seen |-> IF Drained THEN 0 ELSE last_event.seen,
                      called |-> IF Drained THEN 0 ELSE last_event.called,
                      arg |-> IF Drained THEN "" ELSE last_event.arg]
    /\ UNCHANGED <<watch_running, observer, watch_dir, watch_ret, cacheVars>>

\* A handler that does not look at the name of the file.
MatchesAnyFile(e, target_files) ==
    /\ e.kind \in {"modified", "created"}
    /\ ~e.is_directory

\* A handler that has no on_created.
MatchesModified(e, target_files) ==
    /\ e.kind = "modified"
    /\ ~e.is_directory
    /\ e.name \in target_files

\* FileChangeHandler.on_modified and on_created call the callback for a
\* file whose name is in target_files; other events are not handled.
Matches(e, target_files) ==
    /\ e.kind \in {"modified", "created"}
    /\ ~e.is_directory
    /\ e.name \in target_files

\* The thread of observer o dispatches the oldest event it holds to its
\* handler, which calls FileWatcher._on_file_changed and so the change
\* callback.  The event is the last one of the folder when it is the only
\* one the observer holds.
Dispatch(o) ==
    /\ o \in Started
    /\ observers[o].queue # <<>>
    /\ observers' = [observers EXCEPT ![o].queue = Tail(@)]
    /\ last_event' = IF Matches(Head(observers[o].queue),
                                observers[o].target_files)
                     THEN [last_event EXCEPT
                              !.notified = IF Len(observers[o].queue) = 1
                                           THEN @ + 1 ELSE @,
                              !.seen = @ + 1,
                              !.called = @ + 1,
                              !.arg = Head(observers[o].queue).name]
                     ELSE [last_event EXCEPT !.seen = @ + 1]
    /\ UNCHANGED <<watch_running, observer, watch_dir, watch_ret, cacheVars>>

\* The watched folder is removed or created.
DirChange ==
    /\ watch_dir' = ~watch_dir
    /\ UNCHANGED <<watch_running, observer, observers, watch_ret, last_event,
                   cacheVars>>

(***************************************************************************)
(* FileHashCache (file_watcher.py).  One path is followed: hfile is the    *)
(* file at that path, hash_cache the record _hashes holds for it.  gets is *)
(* a history variable: calls, the last two get_hash calls, each with what  *)
(* stat() said (mtime, size), whether the file existed, whether its bytes  *)
(* were read and the value returned (result); data, the bytes the file    *)
(* had at the last call; between, whether clear() or update_hash() ran     *)
(* between the two calls; touched, whether one ran since the last call.    *)
(***************************************************************************)
notCache == <<syncVars, schedVars, ui, appVars, watch_running, observer,
              observers, watch_dir, watch_ret, last_event>>

\* str(n): the decimal digits of a number below 100.
Str(n) == IF n < 10 THEN <<n>> ELSE <<n \div 10, n % 10>>
\* The character "_" among digits.
Underscore == -1

\* A key that puts the two numbers one after the other.
CacheKeyPlain(mtime, size) == Str(mtime) \o Str(size)

\* Line 91: cache_key = f"{current_mtime}_{current_size}"
CacheKey(mtime, size) == Str(mtime) \o <<Underscore>> \o Str(size)

\* _calculate_hash (lines 103-111); ok: open() and read() do not raise.
\* Line 110: except Exception returns "".
CalculateHash(file, ok) == IF ok THEN md5(file.data) ELSE EmptyHash

\* Line 93: if cached and cached.get("key") == cache_key
CacheHit == hash_cache # NoRecord
            /\ hash_cache.key = CacheKey(hfile.mtime, hfile.size)

Remember(c) ==
    [calls |-> IF gets.calls = <<>> THEN <<c>>
               ELSE <<gets.calls[Len(gets.calls)], c>>,
     data |-> hfile.data,
     between |-> gets.touched,
     touched |-> FALSE]

\* FileHashCache.get_hash(filepath), lines 82-101.
GetHash(ok) ==
    LET result == IF hfile.data = Absent THEN EmptyHash
                  ELSE IF CacheHit THEN hash_cache.hash
                  ELSE CalculateHash(hfile, ok)
        read == hfile.data # Absent /\ ~CacheHit
    IN  /\ ok \/ read
        /\ hash_cache' = IF read
                         THEN [key |-> CacheKey(hfile.mtime, hfile.size),
                               hash |-> result]
                         ELSE hash_cache
        /\ gets' = Remember([existed |-> hfile.data # Absent,
                             mtime |-> hfile.mtime, size |-> hfile.size,
                             read |-> read, result |-> result])
        /\ UNCHANGED <<hfile, hcall>>
        /\ UNCHANGED notCache

\* FileHashCache.clear(), lines 113-114.
ClearCache ==
    /\ hash_cache' = NoRecord
    /\ gets' = [gets EXCEPT !.touched = TRUE]
    /\ UNCHANGED <<hfile, hcall>>
    /\ UNCHANGED notCache

\* FileHashCache.update_hash(filepath, file_hash), lines 116-124.
UpdateHash(file_hash) ==
    /\ hash_cache' = IF hfile.data = Absent THEN hash_cache
                     ELSE [key |-> CacheKey(hfile.mtime, hfile.size),
                           hash |-> file_hash]
    /\ gets' = [gets EXCEPT !.touched = TRUE]
    /\ UNCHANGED <<hfile, hcall>>
    /\ UNCHANGED notCache

\* Another program writes or creates the file.
WriteFile(file) ==
    /\ file # hfile
    /\ hfile' = file
    /\ UNCHANGED <<hash_cache, gets, hcall>>
    /\ UNCHANGED notCache

\* Another program deletes the file.
DeleteFile ==
    /\ hfile.data # Absent
    /\ hfile' = NoFile
    /\ UNCHANGED <<hash_cache, gets, hcall>>
    /\ UNCHANGED notCache

(***************************************************************************)
(* FileHashCache called by several threads.  _lock is an Event that is set *)
(* in __init__ and never cleared, so wait() at line 86 returns at once and *)
(* the statements of two calls interleave with each other and with the     *)
(* writes of another program.  hcall[t].pc names the statement thread t    *)
(* executes next.                                                          *)
(***************************************************************************)
\* Line 83 of get_hash: a file that is not there gives "" at line 84.
\* Line 87: cached = self._hashes.get(str(filepath))
GetEnter(t) ==
    /\ hcall[t].pc = "idle"
    /\ hcall' = [hcall EXCEPT ![t] =
                    IF hfile.data = Absent THEN NoCall
                    ELSE [NoCall EXCEPT !.pc = "get_mtime",
                                        !.cached = hash_cache]]
    /\ UNCHANGED <<hfile, hash_cache, gets>>
    /\ UNCHANGED notCache

\* Line 89: current_mtime = filepath.stat().st_mtime
GetStatMtime(t) ==
    /\ hcall[t].pc = "get_mtime"
    /\ hcall' = [hcall EXCEPT ![t].pc = "get_size", ![t].mtime = hfile.mtime]
    /\ UNCHANGED <<hfile, hash_cache, gets>>
    /\ UNCHANGED notCache

\* Lines 90-94: current_size = filepath.stat().st_size, the key, and the
\* return of the cached hash when the record has that key.
GetStatSize(t) ==
    /\ hcall[t].pc = "get_size"
    /\ hcall' = [hcall EXCEPT ![t] =
                    IF /\ hcall[t].cached # NoRecord
                       /\ hcall[t].cached.key =
                             CacheKey(hcall[t].mtime, hfile.size)
                    THEN NoCall
                    ELSE [hcall[t] EXCEPT !.pc = "get_read",
                                          !.size = hfile.size]]
    /\ UNCHANGED <<hfile, hash_cache, gets>>
    /\ UNCHANGED notCache

\* Line 96: file_hash = self._calculate_hash(filepath)
GetRead(t, ok) ==
    /\ hcall[t].pc = "get_read"
    /\ hcall' = [hcall EXCEPT ![t].pc = "get_store",
                              ![t].hash = CalculateHash(hfile, ok)]
    /\ UNCHANGED <<hfile, hash_cache, gets>>
    /\ UNCHANGED notCache

\* Lines 97-101: the record is stored and the hash returned.
GetStore(t) ==
    /\ hcall[t].pc = "get_store"
    /\ hash_cache' = [key |-> CacheKey(hcall[t].mtime, hcall[t].size),
                      hash |-> hcall[t].hash]
    /\ hcall' = [hcall EXCEPT ![t] = NoCall]
    /\ UNCHANGED <<hfile, gets>>
    /\ UNCHANGED notCache

\* update_hash(filepath, file_hash) is called with the hash of the bytes the
\* file has at the call.  Line 117: if filepath.exists()
UpdateEnter(t) ==
    /\ hcall[t].pc = "idle"
    /\ hcall' = [hcall EXCEPT ![t] =
                    IF hfile.data = Absent THEN NoCall
                    ELSE [NoCall EXCEPT !.pc = "upd_mtime",
                                        !.hash = md5(hfile.data)]]
    /\ UNCHANGED <<hfile, hash_cache, gets>>
    /\ UNCHANGED notCache

\* Line 118: current_mtime = filepath.stat().st_mtime
UpdateStatMtime(t) ==
    /\ hcall[t].pc = "upd_mtime"
    /\ hcall' = [hcall EXCEPT ![t].pc = "upd_size", ![t].mtime = hfile.mtime]
    /\ UNCHANGED <<hfile, hash_cache, gets>>
    /\ UNCHANGED notCache

\* Line 119: current_size = filepath.stat().st_size
UpdateStatSize(t) ==
    /\ hcall[t].pc = "upd_size"
    /\ hcall' = [hcall EXCEPT ![t].pc = "upd_store", ![t].size = hfile.size]
    /\ UNCHANGED <<hfile, hash_cache, gets>>
    /\ UNCHANGED notCache

\* Lines 120-124: the record is stored.
UpdateStore(t) ==
    /\ hcall[t].pc = "upd_store"
    /\ hash_cache' = [key |-> CacheKey(hcall[t].mtime, hcall[t].size),
                      hash |-> hcall[t].hash]
    /\ hcall' = [hcall EXCEPT ![t] = NoCall]
    /\ UNCHANGED <<hfile, gets>>
    /\ UNCHANGED notCache

\* Another program creates the file, or rewrites it: the mtime is later, or
\* it is the same and the file has grown, so that the file never has again
\* an mtime and a size it had before.
ModifyFile(file) ==
    /\ hfile.data # Absent =>
          \/ file.mtime > hfile.mtime
          \/ file.mtime = hfile.mtime /\ file.size > hfile.size
    /\ WriteFile(file)

(***************************************************************************)
(* The world around the program.                                           *)
(***************************************************************************)
\* SpecSync: what is remembered of the caller's previous call.
NoPrev == [some |-> FALSE, success |-> FALSE,
           map |-> [f \in Files |-> NoKey], quiet |-> FALSE]

\* Another program writes, creates or deletes a file of the target folder.
EditFile(f, c) ==
    /\ events < MaxEvents
    /\ c # source[f]
    /\ source' = [source EXCEPT ![f] = c]
    /\ events' = events + 1
    /\ call' = [w \in Workers |->
                  IF call[w].pc \in {"pull", "copy", "commit", "returned"}
                  THEN [call[w] EXCEPT !.dirty = TRUE] ELSE call[w]]
    /\ prev' = [prev EXCEPT !.quiet = FALSE]
    /\ UNCHANGED <<tree, remote, base, cloned, repo, file_hashes>>
    /\ UNCHANGED notSync

\* Somebody else pushes a commit that changes a tracked file.
RemoteEdit(f, c) ==
    /\ events < MaxEvents
    /\ c # remote[f]
    /\ remote' = [remote EXCEPT ![f] = c]
    /\ events' = events + 1
    /\ UNCHANGED <<source, tree, base, cloned, repo, file_hashes, call, prev>>
    /\ UNCHANGED notSync

\* for filename, file_hash in new_hashes.items(): set_file_hash(...)
SetFileHashes(d, new_hashes) ==
    [f \in Files |-> IF new_hashes[f] # NoKey THEN new_hashes[f] ELSE d[f]]

(***************************************************************************)
(* MainWindow (main_window.py): uploads requested on the GUI thread and by *)
(* the scheduler's callback, UploadWorker threads, the finished handler.   *)
(***************************************************************************)
\* config_manager.py, lines 36-38: the counters of a new configuration.
NoStats == [total |-> 0, success |-> 0, failed |-> 0]

\* A handler that counts the successes only.
CountedSuccess(s, success) ==
    [total |-> s.total + 1,
     success |-> s.success + (IF success THEN 1 ELSE 0),
     failed |-> s.failed]

\* _on_upload_finished, line 1350: total_upload_count += 1; line 1354:
\* success_upload_count += 1; line 1376: failed_upload_count += 1.
Counted(s, success) ==
    [total |-> s.total + 1,
     success |-> s.success + (IF success THEN 1 ELSE 0),
     failed |-> s.failed + (IF success THEN 0 ELSE 1)]

InitApp ==
    /\ upload_worker = NoWorker
    /\ signals = <<>>
    /\ timer = 0
    /\ stats = NoStats
    /\ task = FALSE
    /\ requests = 0

\* A worker whose run() has returned is collected when upload_worker does
\* not name it and no emission of it is queued.
Collect(c, uw, sigs) ==
    [w \in Workers |->
        IF /\ c[w].pc = "stored"
           /\ w # uw
           /\ \A i \in 1..Len(sigs) : sigs[i].w # w
        THEN IdleCall ELSE c[w]]

\* What is kept of an invocation that has returned: its outcome and, when
\* it returned current_hashes, that map.
Outcome(c) ==
    [IdleCall EXCEPT !.pc = c.pc, !.success = c.success, !.ret = c.ret,
                     !.stopped = c.stopped,
                     !.current_hashes = IF c.ret = "current"
                                        THEN c.current_hashes ELSE @]

\* QThread.isRunning(): from start() until run() has returned.
IsRunning(w) ==
    IF w = NoWorker THEN FALSE
    ELSE call[w].pc \in {"start", "pull", "copy", "commit", "returned",
                         "emitted"}

\* hasattr(worker, 'new_hashes'): line 68 of UploadWorker.run was executed.
HasNewHashes(w) == IF w = NoWorker THEN FALSE ELSE call[w].pc = "stored"

\* Threads that have passed the test of line 1323 and not yet created their
\* worker.
Checked ==
    Cardinality({t \in Threads : loop[t].cb = "checked"})
        + (IF ui.pc = "upload" THEN 1 ELSE 0)

\* The workers once upload_worker names a new one, and the numbers that are
\* free for it.
Replaced == Collect(call, NoWorker, signals)
FreeWorkers == {w \in Workers : Replaced[w].pc = "idle"}

\* _perform_upload, line 1323: no worker is running.  (The model has a
\* worker object for every thread that passes.)
PerformCheck ==
    /\ ~IsRunning(upload_worker)
    /\ Cardinality(FreeWorkers) > Checked

\* _perform_upload, lines 1327-1345: with no existing target file nothing is
\* started; otherwise a worker is created with the existing files of
\* files_to_upload and the file_hashes dict, and started.
PerformCreate ==
    IF Existing(Files) = {}
    THEN UNCHANGED <<call, upload_worker>>
    ELSE /\ FreeWorkers # {}
         /\ LET w == Lowest(FreeWorkers) IN
               /\ call' = [Replaced EXCEPT ![w] = NewCall(Existing(Files))]
               /\ upload_worker' = w

\* UploadWorker.run, line 67: finished_signal.emit(success, message), queued
\* for the GUI thread.
WorkerEmit(w) ==
    /\ call[w].pc = "returned"
    /\ call' = [call EXCEPT ![w] = [Outcome(@) EXCEPT !.pc = "emitted"]]
    /\ signals' = Append(signals, [w |-> w, success |-> call[w].success])
    /\ UNCHANGED <<source, tree, remote, base, cloned, repo, file_hashes,
                   prev, events>>
    /\ UNCHANGED <<schedVars, ui, watchVars>>
    /\ UNCHANGED <<upload_worker, timer, stats, task, requests>>

\* UploadWorker.run, line 68: self.new_hashes = new_hashes, then run returns.
WorkerStore(w) ==
    /\ call[w].pc = "emitted"
    /\ call' = Collect([call EXCEPT ![w].pc = "stored"], upload_worker,
                        signals)
    /\ UNCHANGED <<source, tree, remote, base, cloned, repo, file_hashes,
                   prev, events>>
    /\ UNCHANGED notSync

\* A handler that stores the hashes the worker computed, whatever the
\* outcome.
HandlerBaselineAlways(w, success) ==
    IF w = NoWorker THEN file_hashes
    ELSE SetFileHashes(file_hashes, call[w].current_hashes)

\* _on_upload_finished, lines 1352-1359: file_hashes after the handler, the
\* worker being the one self.upload_worker names when the handler runs.
HandlerBaseline(w, success) ==
    IF success /\ HasNewHashes(w)
    THEN SetFileHashes(file_hashes, ReturnedMap(call[w]))
    ELSE file_hashes

\* _on_upload_finished(success, message) runs on the GUI thread for the
\* oldest queued emission.
OnUploadFinished ==
    /\ ui.pc = "idle"
    /\ signals # <<>>
    /\ file_hashes' = HandlerBaseline(upload_worker, Head(signals).success)
    /\ signals' = Tail(signals)
    /\ call' = Collect(call, upload_worker, Tail(signals))
    /\ UNCHANGED <<source, tree, remote, base, cloned, repo, prev, events>>
    /\ UNCHANGED <<schedVars, ui, watchVars>>
    /\ stats' = Counted(stats, Head(signals).success)
    /\ UNCHANGED <<upload_worker, timer, task, requests>>

\* _upload_now up to line 1323 of _perform_upload: a request made while a
\* worker is running is dropped.
UploadNow ==
    /\ ui.pc = "idle"
    /\ requests < MaxRequests
    /\ requests' = requests + 1
    /\ IF IsRunning(upload_worker)
       THEN UNCHANGED ui
       ELSE /\ PerformCheck
            /\ ui' = [IdleUi EXCEPT !.pc = "upload"]
    /\ UNCHANGED <<syncVars, schedVars, watchVars>>
    /\ UNCHANGED <<upload_worker, signals, timer, stats, task>>

\* The first-upload timer fires: _perform_first_upload up to line 1323 of
\* _perform_upload.
TimerFires ==
    /\ ui.pc = "idle"
    /\ timer > 0
    /\ timer' = timer - 1
    /\ IF IsRunning(upload_worker)
       THEN ui' = [IdleUi EXCEPT !.pc = "sched_start"]
       ELSE /\ PerformCheck
            /\ ui' = [IdleUi EXCEPT !.pc = "upload", !.first = TRUE]
    /\ UNCHANGED <<syncVars, schedVars, watchVars>>
    /\ UNCHANGED <<upload_worker, signals, stats, task, requests>>

\* The GUI thread in _perform_upload, lines 1327-1345.
GuiCreate ==
    /\ ui.pc = "upload"
    /\ PerformCreate
    /\ ui' = IF ui.first THEN [IdleUi EXCEPT !.pc = "sched_start"] ELSE IdleUi
    /\ UNCHANGED <<source, tree, remote, base, cloned, repo, file_hashes,
                   prev, events>>
    /\ UNCHANGED <<schedVars, watchVars>>
    /\ UNCHANGED <<signals, timer, stats, task, requests>>

\* _perform_first_upload, lines 1460-1463: scheduler.start(...).
GuiSchedStart(h) ==
    /\ ui.pc = "sched_start"
    /\ StartEnter(h)

\* _start_task: file_watcher.start(...) and QTimer.singleShot(...).
StartTask(ok) ==
    /\ ui.pc = "idle"
    /\ ~task
    /\ timer < MaxTimers
    /\ requests < MaxRequests
    /\ requests' = requests + 1
    /\ WatchStart(Files, ok)
    /\ timer' = timer + 1
    /\ task' = TRUE
    /\ UNCHANGED <<syncVars, schedVars, ui>>
    /\ UNCHANGED <<upload_worker, signals, stats>>

\* _stop_task, line 1468: file_watcher.stop().  When it raises, the handler
\* ends there: scheduler.stop() is not called and the buttons stay as they
\* are.
StopTask ==
    /\ ui.pc = "idle"
    /\ task
    /\ requests < MaxRequests
    /\ requests' = requests + 1
    /\ WatchStop
    /\ IF watch_ret' = "raised"
       THEN UNCHANGED <<task, ui, call>>
       ELSE /\ task' = FALSE
            /\ ui' = [IdleUi EXCEPT !.pc = "sched_stop"]
            /\ call' = [w \in Workers |->
                   IF call[w].pc \in {"start", "pull", "copy", "commit"}
                   THEN [call[w] EXCEPT !.stopped = TRUE] ELSE call[w]]
    /\ UNCHANGED <<source, tree, remote, base, cloned, repo, file_hashes,
                   prev, events>>
    /\ UNCHANGED schedVars
    /\ UNCHANGED <<upload_worker, signals, timer, stats>>

\* _stop_task, line 1469: scheduler.stop().
GuiSchedStop ==
    /\ ui.pc = "sched_stop"
    /\ StopEnter

\* Another program rewrites tracked file f of the target folder with the
\* bytes it had: the observers of the folder queue a modified event.  (With
\* no observer started the program does not hear of it.)
FileTouched(f) ==
    /\ events < MaxEvents
    /\ events' = events + 1
    /\ Started # {}
    /\ FsEvent([name |-> f, kind |-> "modified", is_directory |-> FALSE])
    /\ UNCHANGED <<source, tree, remote, base, cloned, repo, file_hashes,
                   call, prev>>
    /\ UNCHANGED <<schedVars, ui, appVars>>

\* MainWindow._on_file_changed(filename), the change callback _start_task
\* gives the watcher, called on the thread of observer o: self._log(...)
\* and nothing else.
OnFileChanged(o) ==
    /\ Dispatch(o)
    /\ UNCHANGED notWatch

\* _scheduled_upload on a loop thread, up to line 1323 of _perform_upload.
CbCheck(t) ==
    /\ loop[t].pc = "callback"
    /\ loop[t].cb = "run"
    /\ IF IsRunning(upload_worker)
       THEN CallbackReturns(t)
       ELSE /\ PerformCheck
            /\ loop' = [loop EXCEPT ![t].cb = "checked"]
            /\ UNCHANGED fires
    /\ UNCHANGED <<now, interval_hours, sched_running, stop_event,
                   next_run_time, last_run_time, thread>>
    /\ UNCHANGED <<syncVars, ui, watchVars, appVars>>

\* _scheduled_upload on a loop thread: lines 1327-1345, then it returns.
CbCreate(t) ==
    /\ loop[t].pc = "callback"
    /\ loop[t].cb = "checked"
    /\ PerformCreate
    /\ CallbackReturns(t)
    /\ UNCHANGED <<now, interval_hours, sched_running, stop_event,
                   next_run_time, last_run_time, thread>>
    /\ UNCHANGED <<source, tree, remote, base, cloned, repo, file_hashes,
                   prev, events>>
    /\ UNCHANGED <<ui, watchVars>>
    /\ UNCHANGED <<signals, timer, stats, task, requests>>

(***************************************************************************)
(* SpecSync: one caller of GitManager.                                     *)
(***************************************************************************)
\* The caller calls sync_and_upload(source_files, file_hashes).
CallSync(w) ==
    /\ call[w].pc = "idle"
    /\ call' = [call EXCEPT ![w] = NewCall(Files)]
    /\ UNCHANGED <<source, tree, remote, base, cloned, repo, file_hashes,
                   prev, events>>
    /\ UNCHANGED notSync

\* The caller takes the result and, after a success, may store the returned
\* hashes in its baseline the way MainWindow._on_upload_finished does.
TakeResult(w, adopt) ==
    /\ call[w].pc = "returned"
    /\ prev' = [some |-> TRUE, success |-> call[w].success,
                map |-> ReturnedMap(call[w]), quiet |-> ~call[w].dirty]
    /\ file_hashes' = IF adopt /\ call[w].success
                      THEN SetFileHashes(file_hashes, ReturnedMap(call[w]))
                      ELSE file_hashes
    /\ call' = [call EXCEPT ![w] = IdleCall]
    /\ UNCHANGED <<source, tree, remote, base, cloned, repo,
                   events>>
    /\ UNCHANGED notSync

CallerInit ==
    /\ call[1].pc = "idle"
    /\ InitRepository

InitSync ==
    /\ source \in Trees
    /\ tree = [f \in Files |-> Absent]
    /\ remote = tree
    /\ base = tree
    /\ cloned = TRUE
    /\ repo = FALSE
    /\ file_hashes \in [Files -> {NoKey, md5(1)}]
    /\ call = [w \in Workers |-> IdleCall]
    /\ prev = NoPrev
    /\ events = 0
    /\ InitSched
    /\ ui = IdleUi
    /\ InitWatch
    /\ InitApp

NextSync ==
    \/ CallSync(1)
    \/ SyncHasChanges(1)
    \/ SyncPull(1)
    \/ SyncCopy(1)
    \/ SyncCommitAndPush(1)
    \/ \E adopt \in BOOLEAN : TakeResult(1, adopt)
    \/ CallerInit
    \/ \E f \in Files, c \in {Absent} \cup Contents : EditFile(f, c)
    \/ \E f \in Files, c \in {Absent} \cup Contents : RemoteEdit(f, c)

SpecSync == InitSync /\ [][NextSync]_vars

(***************************************************************************)
(* SpecSched: one caller of UploadScheduler, whose callback takes any time *)
(* and may raise.                                                          *)
(***************************************************************************)
CallerStart(h) == ui.pc = "idle" /\ StartEnter(h)
CallerStop == ui.pc = "idle" /\ StopEnter
\* A call of update_interval that changes the interval or the deadline.
CallerUpdate(h) ==
    /\ ui.pc = "idle"
    /\ \/ h # interval_hours
       \/ sched_running /\ next_run_time \notin {NoTime, now + h}
    /\ UpdateInterval(h)

\* The callback of SpecSched returns.
CallbackDone(t) ==
    /\ loop[t].pc = "callback"
    /\ CallbackReturns(t)
    /\ UNCHANGED <<now, interval_hours, sched_running, stop_event,
                   next_run_time, last_run_time, thread, ui>>
    /\ UNCHANGED notSched

\* The callback of SpecSched raises.
CallbackFails(t) ==
    /\ loop[t].pc = "callback"
    /\ CallbackRaises(t)
    /\ UNCHANGED <<now, interval_hours, sched_running, stop_event,
                   next_run_time, last_run_time, thread, ui>>
    /\ UNCHANGED notSched

InitSchedOnly ==
    /\ source = [f \in Files |-> Absent]
    /\ tree = [f \in Files |-> Absent]
    /\ remote = tree
    /\ base = tree
    /\ cloned = TRUE
    /\ repo = FALSE
    /\ file_hashes = [f \in Files |-> NoKey]
    /\ call = [w \in Workers |-> IdleCall]
    /\ prev = NoPrev
    /\ events = 0
    /\ InitSched
    /\ ui = IdleUi
    /\ InitWatch
    /\ InitApp

NextSched ==
    \/ \E h \in Intervals : CallerStart(h)
    \/ CallerStop
    \/ AfterJoin
    \/ \E h \in Intervals : CallerUpdate(h)
    \/ \E t \in Threads :
          \/ LoopWhile(t)
          \/ LoopPoll(t)
          \/ CallbackDone(t)
          \/ CallbackFails(t)
          \/ LoopSetLast(t)
          \/ LoopSetNext(t)
    \/ Tick

SpecSched == InitSchedOnly /\ [][NextSched]_vars

(***************************************************************************)
(* SpecWatch: one caller of FileWatcher.                                   *)
(***************************************************************************)
CallerWatchStart(target_files, ok) ==
    WatchStart(target_files, ok) /\ UNCHANGED notWatch
CallerWatchStop == WatchStop /\ UNCHANGED notWatch
FolderEvent(e) == FsEvent(e) /\ UNCHANGED notWatch
ObserverDispatch(o) == Dispatch(o) /\ UNCHANGED notWatch
FolderChange == DirChange /\ UNCHANGED notWatch

InitWatchOnly ==
    /\ source = [f \in Files |-> Absent]
    /\ tree = [f \in Files |-> Absent]
    /\ remote = tree
    /\ base = tree
    /\ cloned = TRUE
    /\ repo = FALSE
    /\ file_hashes = [f \in Files |-> NoKey]
    /\ call = [w \in Workers |-> IdleCall]
    /\ prev = NoPrev
    /\ events = 0
    /\ InitSched
    /\ ui = IdleUi
    /\ InitWatch
    /\ InitApp

NextWatch ==
    \/ \E target_files \in TargetLists, ok \in BOOLEAN :
          CallerWatchStart(target_files, ok)
    \/ CallerWatchStop
    \/ \E e \in FsEvents : FolderEvent(e)
    \/ \E o \in Observers : ObserverDispatch(o)
    \/ FolderChange

SpecWatch == InitWatchOnly /\ [][NextWatch]_vars

(***************************************************************************)
(* SpecCache: one caller of a FileHashCache, and another program that      *)
(* writes and deletes the file.                                            *)
(***************************************************************************)
NextCache ==
    \/ \E ok \in BOOLEAN : GetHash(ok)
    \/ ClearCache
    \/ \E file_hash \in Hashes \cup {EmptyHash} : UpdateHash(file_hash)
    \/ \E file \in HashedFiles : WriteFile(file)
    \/ DeleteFile

SpecCache == InitWatchOnly /\ [][NextCache]_vars

(***************************************************************************)
(* SpecRace: threads that call get_hash and update_hash of one             *)
(* FileHashCache for one path while another program rewrites the file.     *)
(***************************************************************************)
NextRace ==
    \/ \E t \in Callers : GetEnter(t)
    \/ \E t \in Callers : GetStatMtime(t)
    \/ \E t \in Callers : GetStatSize(t)
    \/ \E t \in Callers, ok \in BOOLEAN : GetRead(t, ok)
    \/ \E t \in Callers : GetStore(t)
    \/ \E t \in Callers : UpdateEnter(t)
    \/ \E t \in Callers : UpdateStatMtime(t)
    \/ \E t \in Callers : UpdateStatSize(t)
    \/ \E t \in Callers : UpdateStore(t)
    \/ \E file \in HashedFiles : ModifyFile(file)

SpecRace == InitWatchOnly /\ [][NextRace]_vars

(***************************************************************************)
(* SpecApp: MainWindow with its scheduler, watcher and workers, on a       *)
(* repository that was initialised and a target folder whose files stay as *)
(* they are.                                                               *)
(***************************************************************************)
InitAppSpec ==
    /\ source \in {s \in [Files -> {Absent, 1}] :
                      s["base64.txt"] = 1 => s["all.yaml"] = 1}
    /\ tree = [f \in Files |-> Absent]
    /\ remote = tree
    /\ base = tree
    /\ cloned = TRUE
    /\ repo = TRUE
    /\ file_hashes = [f \in Files |-> NoKey]
    /\ call = [w \in Workers |-> IdleCall]
    /\ prev = NoPrev
    /\ events = 0
    /\ InitSched
    /\ ui = IdleUi
    /\ InitWatch
    /\ InitApp

NextApp ==
    \/ UploadNow
    \/ TimerFires
    \/ GuiCreate
    \/ \E h \in Intervals : GuiSchedStart(h)
    \/ \E ok \in BOOLEAN : StartTask(ok)
    \/ StopTask
    \/ GuiSchedStop
    \/ AfterJoin
    \/ OnUploadFinished
    \/ \E f \in Files : FileTouched(f)
    \/ \E o \in Observers : OnFileChanged(o)
    \/ \E t \in Threads :
          \/ LoopWhile(t)
          \/ LoopPoll(t)
          \/ CbCheck(t)
          \/ CbCreate(t)
          \/ LoopSetLast(t)
          \/ LoopSetNext(t)
    \/ \E w \in Workers :
          \/ SyncHasChanges(w)
          \/ SyncPull(w)
          \/ SyncCopy(w)
          \/ SyncCommitAndPush(w)
          \/ WorkerEmit(w)
          \/ WorkerStore(w)
    \/ Tick

SpecApp == InitAppSpec /\ [][NextApp]_vars

(***************************************************************************)
(* Claims about sync_and_upload (checked under SpecSync).                  *)
(***************************************************************************)
Returned(w) == call[w].pc = "returned"

\* C1: whenever sync_and_upload returns success=False, whichever step failed,
\* the map it returns is the stored_hashes dict it was given, with the
\* entries that dict had when the call was made.
C1_FailureReturnsStored ==
    \A w \in Workers :
        (Returned(w) /\ ~call[w].success) =>
            /\ call[w].ret = "stored"
            /\ ReturnedMap(call[w]) = call[w].stored0

\* A push failed after hashes that differ from the baseline were computed.
C1_Witness ==
    \E w \in Workers :
        /\ Returned(w) /\ ~call[w].success /\ call[w].failed = "push"
        /\ call[w].copied # {}
        /\ call[w].current_hashes # call[w].stored0

\* The hash an existing file had when has_changes ran.
SeenHash(w, f) == md5(call[w].seen[f])
SeenExisting(w) == {f \in call[w].source_files : call[w].seen[f] # Absent}
SeenChanged(w) ==
    {f \in SeenExisting(w) :
        \/ call[w].stored0[f] = NoKey
        \/ call[w].stored0[f] # SeenHash(w, f)}

\* C2: the files sync_and_upload copies are the existing source files whose
\* hash differs from the baseline entry (or that have none) and no others; on
\* success the returned map holds the hash of every existing source file,
\* which for an unchanged file is its baseline hash.
C2_ChangeDetection ==
    \A w \in Workers :
        /\ call[w].pc \in {"pull", "copy", "commit", "returned"} /\
           call[w].failed \notin {"load", "hash"}
              => call[w].changed_files = SeenChanged(w)
        /\ call[w].copied \subseteq SeenChanged(w)
        /\ call[w].pc = "commit" => call[w].copied = SeenChanged(w)
        /\ (Returned(w) /\ call[w].success) =>
              /\ call[w].copied = SeenChanged(w)
              /\ \A f \in Files :
                    ReturnedMap(call[w])[f] =
                        IF f \in SeenExisting(w) THEN SeenHash(w, f) ELSE NoKey
              /\ \A f \in SeenExisting(w) \ SeenChanged(w) :
                    ReturnedMap(call[w])[f] = call[w].stored0[f]

\* A successful call with one unchanged file, left alone, and one modified
\* file, copied.
C2_Witness ==
    \E w \in Workers : \E a, b \in Files :
        /\ Returned(w) /\ call[w].success
        /\ a # b
        /\ call[w].seen[a] # Absent /\ call[w].stored0[a] = SeenHash(w, a)
        /\ call[w].seen[b] # Absent /\ call[w].stored0[b] \in Hashes
        /\ call[w].stored0[b] # SeenHash(w, b)
        /\ call[w].copied = {b}
        /\ tree[b] = call[w].seen[b]

\* The second of two successive calls has returned: the one before it
\* succeeded, no source file changed since that one hashed the files, and no
\* step of this one failed.
SecondOfTwo(w) ==
    /\ Returned(w)
    /\ call[w].failed = "none" /\ ~call[w].dirty
    /\ prev.some /\ prev.success /\ prev.quiet

\* The baseline the call was given holds the hashes the previous call
\* returned.
GivenPrevious(w) ==
    \A f \in Keys(prev.map) : call[w].stored0[f] = prev.map[f]

\* C3 as stated: the second of two successive calls with no file change
\* between them, given a baseline that holds the hashes the first call
\* returned for the files that exist, succeeds with one commit followed by
\* one push and returns a map equal to the baseline it was given.
C3_ReturnsBaseline ==
    \A w \in Workers :
        (SecondOfTwo(w) /\ GivenPrevious(w) /\ Keys(prev.map) # {}) =>
            /\ call[w].success
            /\ call[w].gitops = <<"commit", "push">>
            /\ ReturnedMap(call[w]) = call[w].stored0

\* C3 as amended: every call in which no step fails succeeds with one commit
\* followed by one push; the second of two successive calls with no file
\* change between them returns the map the first returned, which agrees with
\* a baseline that holds the first call's hashes on every file it has an
\* entry for.
C3_NoOpRepeat ==
    \A w \in Workers :
        /\ (Returned(w) /\ call[w].failed = "none") =>
              /\ call[w].success
              /\ call[w].gitops = <<"commit", "push">>
        /\ SecondOfTwo(w) =>
              /\ ReturnedMap(call[w]) = prev.map
              /\ GivenPrevious(w) =>
                    \A f \in Keys(ReturnedMap(call[w])) :
                        ReturnedMap(call[w])[f] = call[w].stored0[f]

\* The second call copied nothing and its baseline, which holds the first
\* call's hashes, also has an entry for a file that does not exist.
C3_Witness ==
    \E w \in Workers :
        /\ SecondOfTwo(w) /\ GivenPrevious(w)
        /\ call[w].copied = {}
        /\ Keys(ReturnedMap(call[w])) # {}
        /\ Keys(call[w].stored0) \ Keys(ReturnedMap(call[w])) # {}

(***************************************************************************)
(* Claims about UploadScheduler (checked under SpecSched).                 *)
(***************************************************************************)
\* Thread t goes from the test of the deadline into the callback.
Invokes(t) == loop[t].pc = "poll" /\ loop'[t].pc = "callback"

\* C5: after start() has returned on a scheduler that was running, the loop
\* of the previous session has exited or never invokes the callback again,
\* so that one loop is active and a deadline causes one invocation.
C5_OneLoopAfterRestart ==
    [][\A t \in Threads : loop[t].replaced => ~Invokes(t)]_vars

\* C7: at every fire of the loop, the next_run_time written after the
\* callback is at least the last_run_time written at that fire plus the
\* interval, however long the callback ran.
C7_NextAfterLast ==
    [][\A t \in Threads :
          (loop[t].pc = "set_next" /\ loop'[t].pc # "set_next") =>
              next_run_time' >= loop[t].last_set + interval_hours]_vars

\* A loop has fired, its callback took time, and it wrote both times.
C7_Witness ==
    \E t \in Threads :
        /\ loop[t].pc = "sleep30"
        /\ fires.active = 0 /\ fires.start # NoTime /\ fires.end > fires.start
        /\ last_run_time >= fires.end
        /\ next_run_time = last_run_time + interval_hours

\* C8: with the interval unchanged, a callback invocation begins no sooner
\* than one interval after the invocation before it returned, and never
\* while one is in progress.
C8_MinimumSpacing ==
    [][\A t \in Threads :
          Invokes(t) =>
              /\ fires.active = 0
              /\ (fires.end # NoTime /\ fires.stable) =>
                    now >= fires.end + interval_hours]_vars

(***************************************************************************)
(* Claims about FileWatcher (checked under SpecWatch).                     *)
(***************************************************************************)
\* C6: after start() has returned true, on a watcher that was running or
\* not, one observer is active, the one FileWatcher.observer names: the
\* observer of the session before is stopped and joined, and an event causes
\* at most one call of the change callback.
C6_OneObserver ==
    /\ watch_running =>
          /\ observer # NoObserver
          /\ Started = {observer}
    /\ last_event.notified <= 1

\* start() returned true on a running watcher, and a matching event that
\* came after it was dispatched and caused one call of the callback.
C6_Witness ==
    /\ watch_running
    /\ watch_ret = "restarted"
    /\ Matches(last_event, observers[observer].target_files)
    /\ observers[observer].queue = <<>>
    /\ last_event.notified = 1

\* In this step the thread of observer o takes the oldest event it holds and
\* gives it to its handler.
Dispatches(o) ==
    /\ observers[o].state = "started"
    /\ observers'[o].state = "started"
    /\ observers[o].queue # <<>>
    /\ observers'[o].queue = Tail(observers[o].queue)

\* C11: an event for a file whose base name is not in the target_files the
\* handler was given does not invoke the change callback, whatever its kind.
C11_FiltersByName ==
    [][\A o \in Observers :
          (/\ Dispatches(o)
           /\ Head(observers[o].queue).name \notin observers[o].target_files)
              => /\ last_event'.called = last_event.called
                 /\ last_event'.arg = last_event.arg]_vars

\* The handler of the running watcher was given a modification of a file
\* that is not among its target files, and the callback was not called.
C11_Witness ==
    /\ watch_running
    /\ last_event.kind = "modified" /\ ~last_event.is_directory
    /\ last_event.name \notin observers[observer].target_files
    /\ last_event.burst = 1 /\ last_event.seen = 1
    /\ last_event.called = 0

\* C12: while the watcher is running, every create or modify event of a file
\* (not a directory) whose base name is in target_files that the observer
\* gives to the handler invokes the change callback once, with that name;
\* the events of a burst are handled one by one, none merged with another.
C12_OncePerEvent ==
    [][\A o \in Observers :
          (/\ Dispatches(o)
           /\ watch_running /\ o = observer
           /\ Head(observers[o].queue).kind \in {"modified", "created"}
           /\ ~Head(observers[o].queue).is_directory
           /\ Head(observers[o].queue).name \in observers[o].target_files)
              => /\ last_event'.called = last_event.called + 1
                 /\ last_event'.arg = Head(observers[o].queue).name]_vars

\* A burst of two events of tracked files, one a creation, has caused two
\* calls of the callback.
C12_Witness ==
    /\ watch_running
    /\ observers[observer].queue = <<>>
    /\ last_event.kind = "created" /\ ~last_event.is_directory
    /\ last_event.name \in observers[observer].target_files
    /\ last_event.burst = 2 /\ last_event.seen = 2
    /\ last_event.called = 2
    /\ last_event.arg = last_event.name

(***************************************************************************)
(* Claims about MainWindow (checked under SpecApp).                        *)
(***************************************************************************)
\* Worker w is inside GitManager.sync_and_upload.
InFlight(w) == call[w].pc \in {"pull", "copy", "commit"}

\* C4: at most one sync_and_upload invocation is in flight at any time,
\* whoever requested the uploads: the user, the first-upload timer or the
\* scheduler's callback on its own thread.
C4_OneSyncInFlight == Cardinality({w \in Workers : InFlight(w)}) <= 1

\* The GUI thread runs _on_upload_finished for an emission of success.
Handling(success) ==
    /\ ui.pc = "idle"
    /\ signals # <<>>
    /\ signals' = Tail(signals)
    /\ Head(signals).success = success

\* C9: file_hashes changes only in a step of _on_upload_finished that
\* handles an attempt which finished with success=True; every other step, a
\* failed attempt or a dropped request among them, leaves it as it is.
C9_BaselineOnlyOnSuccess ==
    [][file_hashes' # file_hashes => Handling(TRUE)]_vars

\* The handler has changed the baseline for an attempt that succeeded and
\* has then run for an attempt that failed.
C9_Witness ==
    /\ Keys(file_hashes) # {}
    /\ signals = <<>>
    /\ upload_worker # NoWorker
    /\ call[upload_worker].pc = "stored"
    /\ ~call[upload_worker].success

\* C10: when _on_upload_finished has handled an attempt that succeeded,
\* file_hashes holds the hash that attempt returned for every source file
\* that existed during it, however the worker thread and the GUI thread
\* interleave.
C10_BaselineHoldsReturned ==
    [][Handling(TRUE) =>
          LET c == call[Head(signals).w] IN
              \A f \in Keys(c.current_hashes) :
                  file_hashes'[f] = c.current_hashes[f]]_vars

\* C13: a change event for a tracked file makes the program ask for a sync,
\* as a deadline of the scheduler does: the call of the change callback
\* starts an upload, unless one is running.
C13_ChangeTriggersSync ==
    [][\A o \in Observers :
          (Dispatches(o) /\ last_event'.called = last_event.called + 1)
              => \/ IsRunning(upload_worker)
                 \/ upload_worker' # upload_worker
                 \/ call' # call]_vars

\* _stop_task has returned and _start_task was not run since.
Stopped == ~task /\ ui.pc \notin {"sched_stop", "stop_join"}

\* C14: once _stop_task has stopped the watcher and the scheduler, and until
\* the task is started again, the first-upload timer does not fire, no loop
\* of the scheduler invokes the upload callback, and the scheduler is not
\* running.
C14_StoppedStaysQuiet ==
    [][Stopped => /\ timer' >= timer
                  /\ \A t \in Threads : ~Invokes(t)
                  /\ ~sched_running']_vars

\* _stop_task or the scheduler.stop() it calls takes this step.
Stopping ==
    \/ task /\ ~task'
    \/ ui.pc \in {"sched_stop", "stop_join"} /\ ui' # ui

\* C15: stopping the watcher and the scheduler leaves a sync that is running
\* as it is, with its worker and the emissions that are queued; when the
\* handler runs for a sync that was running during the stop it takes the
\* emission, and after a success file_hashes holds the hashes that sync
\* returned.
C15_StopKeepsSync ==
    [][/\ Stopping =>
            /\ upload_worker' = upload_worker
            /\ signals' = signals
            /\ \A w \in Workers :
                  /\ call'[w].pc = call[w].pc
                  /\ call'[w].success = call[w].success
                  /\ call'[w].current_hashes = call[w].current_hashes
       /\ (Handling(TRUE) /\ call[Head(signals).w].stopped) =>
            LET c == call[Head(signals).w] IN
                \A f \in Keys(c.current_hashes) :
                    file_hashes'[f] = c.current_hashes[f]]_vars

(***************************************************************************)
(* More claims about UploadScheduler (checked under SpecSched).            *)
(***************************************************************************)
\* C16: once stop() has returned, and until start() is called again, no loop
\* thread is alive and next_run_time is None, also when stop() was called
\* while the callback was executing.
C16_StopLeavesNothing ==
    (~sched_running /\ ui.pc = "idle") =>
        /\ \A t \in Threads : ~Alive(t)
        /\ next_run_time = NoTime

(***************************************************************************)
(* More claims about sync_and_upload (checked under SpecSync).             *)
(***************************************************************************)
\* C17 as stated: sync_and_upload never raises, and whenever one of its
\* steps has failed (repository load, hashing, credential refresh, pull,
\* copy, commit, push) it returns success=False.
C17_EveryFailureFails ==
    \A w \in Workers :
        /\ call[w].pc # "raised"
        /\ (Returned(w) /\ call[w].failed # "none") => ~call[w].success

\* C17 as amended: sync_and_upload never raises; a failure of the repository
\* load, the hashing, the credential refresh, the copy, the commit or the
\* push ends the call at once with success=False and the stored_hashes it
\* was given; a pull that fails does not end the call, which goes on to
\* copy, commit and push and returns their outcome.
C17_NeverRaises ==
    \A w \in Workers :
        /\ call[w].pc # "raised"
        /\ call[w].failed \in {"load", "hash", "auth", "copy", "commit", "push"}
              => /\ Returned(w)
                 /\ ~call[w].success
                 /\ call[w].ret = "stored"
        /\ (call[w].failed = "pull" /\ call[w].pc # "returned")
              => call[w].pc \in {"copy", "commit"}
        /\ (Returned(w) /\ call[w].success)
              => call[w].failed \in {"none", "pull"}

\* The credential refresh raised after the files were hashed, and the call
\* returned success=False.
C17_Witness ==
    \E w \in Workers :
        /\ Returned(w) /\ call[w].failed = "auth" /\ ~call[w].success
        /\ Keys(call[w].current_hashes) # {}

\* C18: an I/O error while an existing source file is hashed does not end
\* the sync: the file counts as changed and the attempt goes on to copy,
\* commit and push, so that no call returns because hashing failed.
C18_HashErrorDegrades ==
    \A w \in Workers :
        call[w].failed = "hash" =>
            /\ call[w].pc \in {"pull", "copy", "commit", "returned"}
            /\ Returned(w) => call[w].gitops # <<>>

(***************************************************************************)
(* More claims about FileWatcher (checked under SpecWatch).                *)
(***************************************************************************)
\* In this step the caller's start() returns.
StartReturns ==
    \E target_files \in TargetLists, ok \in BOOLEAN :
        CallerWatchStart(target_files, ok)

\* C20: a start() for a folder that does not exist returns False at line
\* 44, leaves no observer started and leaves is_running() false, whether
\* the watcher was running before the call or not; and nothing starts an
\* observer or sets the flag until the next start().
C20_NoPathNoWatch ==
    /\ [][(StartReturns /\ ~watch_dir) =>
              /\ watch_ret' = IF watch_running THEN "no_path_stopped"
                               ELSE "no_path"
              /\ ~watch_running'
              /\ \A o \in Observers : observers'[o].state # "started"]_vars
    /\ [](watch_ret \in {"no_path", "no_path_stopped"} =>
              /\ ~watch_running
              /\ Started = {})

\* start() has returned False for a missing folder on a watcher that was
\* running: the observer of the session before is gone.
C20_Witness ==
    /\ watch_ret = "no_path_stopped"
    /\ ~watch_dir
    /\ ~watch_running
    /\ observer = NoObserver
    /\ Started = {}

(***************************************************************************)
(* Claims about FileHashCache (checked under SpecCache).                   *)
(***************************************************************************)
\* Two get_hash calls of the path that follow one another, the file being
\* there at both and neither clear() nor update_hash() called in between.
TwoGets ==
    /\ Len(gets.calls) = 2
    /\ gets.calls[1].existed
    /\ gets.calls[2].existed
    /\ ~gets.between

SameStat == /\ gets.calls[1].mtime = gets.calls[2].mtime
            /\ gets.calls[1].size = gets.calls[2].size

\* C19: when the file has the same mtime and the same size at two get_hash
\* calls that follow one another, the second returns the hash the first
\* returned and reads no byte of the file; when the mtime or the size
\* differs, the second reads the file, returns the hash of what it read
\* (the empty hash when the read fails) and leaves the record with the
\* key of the new mtime and size and that hash, until clear() or
\* update_hash() is called.
C19_SameStatSameHash ==
    TwoGets =>
        IF SameStat
        THEN /\ ~gets.calls[2].read
             /\ gets.calls[2].result = gets.calls[1].result
        ELSE /\ gets.calls[2].read
             /\ gets.calls[2].result \in {md5(gets.data), EmptyHash}
             /\ \/ gets.touched
                \/ hash_cache = [key |-> CacheKey(gets.calls[2].mtime,
                                                  gets.calls[2].size),
                                 hash |-> gets.calls[2].result]

\* The first call read the file, the file was rewritten with other bytes
\* but the same mtime and size, and the second call returned the hash of
\* the old bytes without reading.
C19_Witness ==
    /\ TwoGets
    /\ SameStat
    /\ gets.calls[1].read
    /\ gets.calls[1].result \in Hashes
    /\ ~gets.calls[2].read
    /\ gets.calls[2].result = gets.calls[1].result
    /\ gets.calls[2].result # md5(gets.data)

(***************************************************************************)
(* Claims about FileHashCache called by several threads (checked under     *)
(* SpecRace).                                                              *)
(***************************************************************************)
\* The record of the path passes the test of line 93 for the file as it is.
Fresh ==
    /\ hfile.data # Absent
    /\ hash_cache # NoRecord
    /\ hash_cache.key = CacheKey(hfile.mtime, hfile.size)

\* C21: however get_hash calls, update_hash calls and rewrites of the file
\* interleave, a record whose key is the key of the file's present mtime
\* and size holds the hash of the file's present bytes.
C21_FreshRecordIsRight == Fresh => hash_cache.hash = md5(hfile.data)

(***************************************************************************)
(* Claims about the loop of UploadScheduler (checked under SpecSched).     *)
(***************************************************************************)
\* C22: a callback that raises does not end the loop: the thread goes to
\* time.sleep(60), and from there to the next poll unless the stop event
\* is set; a loop thread ends only when it finds the stop event set.
C22_RaiseKeepsLoop ==
    [][\A t \in Threads :
          /\ CallbackFails(t) => loop'[t].pc = "sleep60"
          /\ (loop[t].pc = "sleep60" /\ loop'[t].pc # "sleep60") =>
                loop'[t].pc = IF stop_event THEN "dead" ELSE "poll"
          /\ (loop[t].pc # "dead" /\ loop'[t].pc = "dead") => stop_event]_vars

\* The callback of a thread raised, the thread slept and polls again.
C22_Witness ==
    \E t \in Threads :
        /\ loop[t].raises > 0
        /\ loop[t].pc = "poll"
        /\ sched_running
        /\ ~stop_event

\* C23: a callback that raises leaves last_run_time and next_run_time as
\* they are, the thread writes neither afterwards, and at its next poll,
\* the deadline being still the one that was reached, it invokes the
\* callback again; so it does at every poll while the callback raises.
C23_RaiseRetriesAtOnce ==
    /\ [](\A t \in Threads :
             loop[t].raises > 0 => loop[t].pc \notin {"set_last", "set_next"})
    /\ [][\A t \in Threads :
             /\ CallbackFails(t) =>
                   /\ last_run_time' = last_run_time
                   /\ next_run_time' = next_run_time
             /\ ( /\ loop[t].raises > 0
                  /\ loop[t].pc = "poll" /\ loop'[t].pc # "poll"
                  /\ loop[t].due # NoTime
                  /\ next_run_time = loop[t].due
                  /\ now >= loop[t].due ) =>
                   loop'[t].pc = "callback"]_vars

\* The callback was invoked twice by a thread and raised twice, and the
\* deadline is the one of the first invocation; it never returned.
C23_Witness ==
    \E t \in Threads :
        /\ loop[t].raises = 2
        /\ loop[t].due # NoTime
        /\ next_run_time = loop[t].due
        /\ last_run_time = NoTime
        /\ fires.end = NoTime

\* In this step the caller's update_interval(h) returns.
Updates(h) == CallerUpdate(h)

\* C24: update_interval(h) makes h the interval; on a running scheduler
\* that has a next_run_time it sets next_run_time to now + h in the same
\* call; on a scheduler that is not running it leaves next_run_time as it
\* is, creates no loop thread and leaves the scheduler not running.
C24_UpdateInterval ==
    [][\A h \in Intervals :
          Updates(h) =>
              /\ interval_hours' = h
              /\ (sched_running /\ next_run_time # NoTime) =>
                    next_run_time' = now + h
              /\ ~sched_running =>
                    /\ next_run_time' = next_run_time
                    /\ loop' = loop
                    /\ thread' = thread
                    /\ ~sched_running']_vars

\* update_interval was called on a running scheduler after its deadline had
\* been reached but before the loop polled: the deadline is one interval
\* from now and the callback has not been invoked.
C24_Witness ==
    /\ sched_running
    /\ now > 0
    /\ next_run_time = now + interval_hours
    /\ fires.moved
    /\ fires.start = NoTime
    /\ last_run_time = NoTime

(***************************************************************************)
(* Claims about the steps of sync_and_upload (checked under SpecSync).     *)
(***************************************************************************)
\* C25: when the copy of a file of the changed set fails, the call returns
\* success=False with the stored hashes and has made no commit and no
\* push, whether or not other files of the set were copied.
C25_CopyFailureStops ==
    \A w \in Workers :
        call[w].failed = "copy" =>
            /\ Returned(w)
            /\ ~call[w].success
            /\ call[w].ret = "stored"
            /\ call[w].gitops = <<>>

\* The copy of one changed file failed after the other had been copied into
\* the working tree.
C25_Witness ==
    \E w \in Workers :
        /\ Returned(w) /\ call[w].failed = "copy"
        /\ call[w].copied # {}
        /\ call[w].copied # call[w].changed_files
        /\ \A f \in call[w].copied : tree[f] # Absent

\* C26: a pull that fails does not end the attempt: the call goes on to
\* the copy, and it returns success=True, after a commit and a push, unless
\* the copy, the commit or the push fails.
C26_PullFailureGoesOn ==
    \A w \in Workers :
        call[w].failed = "pull" =>
            /\ call[w].pc \in {"copy", "commit", "returned"}
            /\ Returned(w) =>
                  /\ call[w].success
                  /\ call[w].gitops = <<"commit", "push">>

\* The pull failed, a changed file was copied, and the call returned
\* success=True.
C26_Witness ==
    \E w \in Workers :
        /\ Returned(w) /\ call[w].failed = "pull"
        /\ call[w].success
        /\ call[w].copied # {}
        /\ \A f \in call[w].copied : remote[f] = call[w].seen[f]

\* File f was not in the target folder when invocation w hashed the files.
Skipped(w, f) ==
    /\ call[w].pc \in {"pull", "copy", "commit", "returned"}
    /\ call[w].seen[f] = Absent

\* C27: a file that is not in the target folder when the files are hashed
\* is not in the changed set, is not copied and has no entry in
\* current_hashes; the copy and the commit leave its copy in the working
\* tree as it is; and the caller that stores the hashes of a successful
\* call leaves its entry of file_hashes as it is.
C27_AbsentFileSkipped ==
    /\ [](\A w \in Workers, f \in Files :
             Skipped(w, f) =>
                 /\ f \notin call[w].changed_files
                 /\ f \notin call[w].copied
                 /\ call[w].current_hashes[f] = NoKey)
    /\ [][\A w \in Workers, f \in Files :
             (Skipped(w, f) /\ call'[w].pc # call[w].pc) =>
                 /\ call[w].pc \in {"copy", "commit"} => tree'[f] = tree[f]
                 /\ Returned(w) => file_hashes'[f] = file_hashes[f]]_vars

\* A successful call was made while a file was missing, and its hashes were
\* stored: the missing file had no entry in the returned map, its entry in
\* file_hashes and its copy in the working tree are still there.
C27_Witness ==
    \E f \in Files, g \in Files :
        /\ call[1].pc = "idle"
        /\ prev.some /\ prev.success
        /\ source[f] = Absent
        /\ prev.map[f] = NoKey
        /\ file_hashes[f] # NoKey
        /\ tree[f] # Absent
        /\ prev.map[g] # NoKey
        /\ file_hashes[g] = prev.map[g]
        /\ tree[g] = source[g]

\* C28: when a call has returned success=True and no file of the target
\* folder was written while it ran, every file that is in the target
\* folder has the same content in the working tree and at the head of the
\* remote branch.
C28_LocalFilesWin ==
    \A w \in Workers :
        (Returned(w) /\ call[w].success /\ ~call[w].dirty) =>
            \A f \in Files :
                source[f] # Absent =>
                    /\ tree[f] = source[f]
                    /\ remote[f] = source[f]

\* C29: when a call has returned success=True, the hash it returns for a
\* file it copied is the hash of the content the copy put into the working
\* tree, which is the content that was committed and pushed.
C29_HashOfWhatWasCopied ==
    \A w \in Workers :
        (Returned(w) /\ call[w].success) =>
            \A f \in call[w].copied :
                /\ tree[f] # Absent
                /\ call[w].current_hashes[f] = md5(tree[f])

(***************************************************************************)
(* Claims about the counters of MainWindow (checked under SpecApp).        *)
(***************************************************************************)
\* In this step _on_upload_finished handles the oldest queued emission.
Handles == signals # <<>> /\ signals' = Tail(signals)

\* C30: a worker whose sync_and_upload has returned emits one signal with
\* the outcome; the handler of a signal adds one to total_upload_count and
\* one to success_upload_count or to failed_upload_count, by the outcome;
\* nothing else, a dropped request included, changes a counter; and the
\* total is the sum of the two others.
C30_CountersAddUp ==
    /\ [](stats.total = stats.success + stats.failed)
    /\ [][/\ \A w \in Workers :
               (call[w].pc = "returned" /\ call'[w].pc = "emitted") =>
                   /\ signals' = Append(signals,
                                        [w |-> w, success |-> call[w].success])
                   /\ stats' = stats
          /\ Handles =>
               /\ stats'.total = stats.total + 1
               /\ stats'.success =
                     stats.success + (IF Head(signals).success THEN 1 ELSE 0)
               /\ stats'.failed =
                     stats.failed + (IF Head(signals).success THEN 0 ELSE 1)
          /\ ~Handles => stats' = stats]_vars

\* Two syncs have completed and were handled, one with success and one
\* without, and no result is waiting.
C30_Witness ==
    /\ stats = [total |-> 2, success |-> 1, failed |-> 1]
    /\ signals = <<>>
    /\ ui.pc = "idle"
====
